---- MODULE Spec2Model ----
(***************************************************************************)
(* Verification model of the rag-workflow-tools scripts.                   *)
(*                                                                         *)
(*   Spec        instagram_automation/post_to_instagram.py  (Reel workflow) *)
(*   SpecUpload  gcs_utilities/googleCloud_upload.py        (GCS upload)    *)
(*   SpecMirror  gcs_utilities/Local_GoogleDrive_mirror.py  (local->Drive)  *)
(*   SpecDownload gcs_utilities/GoogleDrive_Local_mirror.py (Drive->local)  *)
(*   SpecVideo   video_processing/create_InstagramReel_addMusic.py          *)
(*                                                                         *)
(* Each script is an independent process; a specification runs one script  *)
(* and leaves the variables of the others at their idle values.            *)
(***************************************************************************)
EXTENDS Integers, Sequences, FiniteSets, TLC

VARIABLES
    \* ---- post_to_instagram.py ----
    pc,            \* position of the run in __main__
    exitCode,      \* process exit status, -1 while running
    credsFile,     \* state of credentials.yml on disk
    cfgFile,       \* state of business_config.yaml on disk
    cfgExpiry,     \* signedUrlExpiryMinutes in the configuration, 0 = absent
    cfgPoll,       \* pollIntervalSeconds in the configuration, 0 = absent
    urlReach,      \* HTTP status a probe of the signed URL would get, 0 = transport failure
    calls,         \* log of the calls made: network calls and sleeps, in order
    containerId,   \* container_id returned by create_media_container's POST
    statusResp,    \* last status response received by the poller
    printedError,  \* error detail printed by the poller
    mediaId,       \* media id returned by publish_media
    \* ---- googleCloud_upload.py ----
    upc,           \* position of each upload run
    uexit,         \* exit status of each upload run, -1 while running
    udest,         \* destination_blob_name of each run
    bucketExists,  \* whether the bucket exists
    objects,       \* the bucket: object name -> [generation, data], generation 0 = absent
    existedAtUpload, \* per run: whether the object existed when its upload was served
    \* ---- Local_GoogleDrive_mirror.py ----
    mpc,           \* position of the mirror run
    mrun,          \* number of the current run
    localKind,     \* local folder: name -> "none" | "file" | "dir"
    driveOther,    \* names present in the Drive folder that the script did not create
    driveScript,   \* name -> number of files of that name created by the script
    folderExists,  \* whether the Drive folder of that name exists
    existing,      \* the set built from the listing (line 54)
    todo,          \* local entries iterdir() has not yielded yet
    uploadedNow,   \* names uploaded by the current run
    driveAtStart,  \* names present in the Drive folder when the current run started
    lastRun,       \* how the previous run ended: "none" | "completed" | "failed"
    \* ---- GoogleDrive_Local_mirror.py ----
    dpc,           \* position of the download run
    drun,          \* number of the current run
    remoteFiles,   \* names of the files in the latest Drive folder
    localChunks,   \* local target: name -> chunks on disk, -1 = no such file
    dexisting,     \* the set built at line 69
    dtodo,         \* files of the listing the loop has not reached yet
    dcur,          \* file being downloaded
    skipped,       \* names the current run skipped as already present
    \* ---- create_InstagramReel_addMusic.py ----
    vpc,           \* position of the call of create_video_with_music
    queriesLeft,   \* queries of MUSIC_QUERIES the loop has not tried yet
    musicPath,     \* music_path of create_video_with_music
    tmpFiles,      \* music files on disk under /tmp
    musicWritten   \* music files get_freesound_music wrote during this call

igVars == <<pc, exitCode, credsFile, cfgFile, cfgExpiry, cfgPoll, urlReach, calls,
            containerId, statusResp, printedError, mediaId>>
upVars == <<upc, uexit, udest, bucketExists, objects, existedAtUpload>>
mirVars == <<mpc, mrun, localKind, driveOther, driveScript, folderExists, existing,
             todo, uploadedNow, driveAtStart, lastRun>>
dlVars == <<dpc, drun, remoteFiles, localChunks, dexisting, dtodo, dcur, skipped>>
vidVars == <<vpc, queriesLeft, musicPath, tmpFiles, musicWritten>>
vars == <<igVars, upVars, mirVars, dlVars, vidVars>>

(***************************************************************************)
(* Bounds of the model                                                     *)
(***************************************************************************)
MaxPolls == 3
NumIds == 2
MaxRuns == 2
\* Chunks MediaIoBaseDownload needs for one file.
NumChunks == 2
\* Entries one files.list response of the Drive API carries at most (the API's
\* default pageSize is 100; scaled down with the folder sizes of the model).
PageSize == 2

(***************************************************************************)
(* Program constants                                                       *)
(***************************************************************************)
DefaultExpirationMinutes == 15
PollSleepSeconds == 5
NumMusicQueries == 6

None == "none"
ContainerIds == 1..NumIds
MediaIds == 1..NumIds
NoId == 0
FileStates == {"ok", "no_file", "missing_key", "unreadable"}
HttpCodes == {0, 200, 400}          \* 0: no response (transport error)
Statuses == {"IN_PROGRESS", "EXPIRED", "missing", "FINISHED", "ERROR"}
Details == {"e1", "e2"}
NoResp == [code |-> 0, status |-> None, detail |-> None]

(***************************************************************************)
(* post_to_instagram.py                                                    *)
(***************************************************************************)

\* load_credentials / load_business_config: FileNotFoundError and KeyError are
\* caught and end in sys.exit(1); any other exception of open / safe_load
\* propagates uncaught.
LoadOutcome_Lenient(file) == "loaded"

LoadOutcome(file) ==
    CASE file = "ok" -> "loaded"
      [] file \in {"no_file", "missing_key"} -> "sys_exit"
      [] OTHER -> "raise"

\* The expiration_minutes that reaches generate_signed_url: __main__ passes
\* three keyword arguments and leaves expiration_minutes at its default.
ExpirationMinutes_FromConfig(supplied) ==
    IF supplied = 0 THEN DefaultExpirationMinutes ELSE supplied

ExpirationMinutes(supplied) == DefaultExpirationMinutes

\* The argument of time.sleep in the polling loop.
PollWait(supplied) == PollSleepSeconds

\* resp.raise_for_status(): raises HTTPError for 4xx and 5xx.
RaiseForStatus_Never(code) == FALSE

RaiseForStatus(code) == code >= 400 /\ code < 600

\* Outcome of one HTTP call whose JSON body must carry "id": a transport
\* error, an HTTPError and a KeyError all propagate uncaught.
CallResult(code, id) ==
    IF code = 0 THEN "transport_error"
    ELSE IF RaiseForStatus(code) THEN "http_error"
    ELSE IF id = NoId THEN "no_id"
    ELSE "ok"

\* Outcome of one status query.
StatusResult(code, status) ==
    IF code = 0 THEN "transport_error"
    ELSE IF RaiseForStatus(code) THEN "http_error"
    ELSE status

\* `while True:` of the polling loop, as a condition on the ticks done so far.
LoopCondition_Capped(ticks) == ticks < 2

LoopCondition(ticks) == TRUE

\* What the loop body does with the status it read.
PollDecision_NoErrorCheck(status) ==
    IF status = "FINISHED" THEN "return" ELSE "sleep"

PollDecision_MissesFinished(status) ==
    IF status = "ERROR" THEN "exit" ELSE "sleep"

PollDecision(status) ==
    IF status = "FINISHED" THEN "return"
    ELSE IF status = "ERROR" THEN "exit"
    ELSE "sleep"

\* The creation_id __main__ hands to publish_media.
CreationId_Stale(cid) == 1

CreationId(cid) == cid

\* One entry of the call log; code is the HTTP status received (0: none).
Entry(op, arg, code, res) == [op |-> op, arg |-> arg, code |-> code, res |-> res]

RECURSIVE CountOp(_, _)
CountOp(log, op) ==
    IF log = <<>> THEN 0
    ELSE (IF Head(log).op = op THEN 1 ELSE 0) + CountOp(Tail(log), op)

Ticks == CountOp(calls, "status")

IGInit ==
    /\ pc = "load_credentials"
    /\ exitCode = -1
    /\ credsFile \in FileStates
    /\ cfgFile \in FileStates
    /\ cfgExpiry \in {0, 15, 30}
    /\ cfgPoll \in {0, 5, 10}
    /\ urlReach \in {0, 200, 404}
    /\ calls = <<>>
    /\ containerId = NoId
    /\ statusResp = NoResp
    /\ printedError = None
    /\ mediaId = NoId

IGIdle ==
    /\ pc = "idle"
    /\ exitCode = -1
    /\ credsFile = "ok"
    /\ cfgFile = "ok"
    /\ cfgExpiry = 0
    /\ cfgPoll = 0
    /\ urlReach = 200
    /\ calls = <<>>
    /\ containerId = NoId
    /\ statusResp = NoResp
    /\ printedError = None
    /\ mediaId = NoId

Abort ==
    /\ pc' = "exit"
    /\ exitCode' = 1

LoadCredentials ==
    /\ UNCHANGED <<upVars, mirVars, dlVars, vidVars>>
    /\ pc = "load_credentials"
    /\ IF LoadOutcome(credsFile) = "loaded"
         THEN pc' = "load_business_config" /\ UNCHANGED exitCode
         ELSE Abort
    /\ UNCHANGED <<credsFile, cfgFile, cfgExpiry, cfgPoll, urlReach, calls,
                   containerId, statusResp, printedError, mediaId>>

LoadBusinessConfig ==
    /\ UNCHANGED <<upVars, mirVars, dlVars, vidVars>>
    /\ pc = "load_business_config"
    /\ IF LoadOutcome(cfgFile) = "loaded"
         THEN pc' = "generate_signed_url" /\ UNCHANGED exitCode
         ELSE Abort
    /\ UNCHANGED <<credsFile, cfgFile, cfgExpiry, cfgPoll, urlReach, calls,
                   containerId, statusResp, printedError, mediaId>>

GenerateSignedUrl ==
    /\ UNCHANGED <<upVars, mirVars, dlVars, vidVars>>
    /\ pc = "generate_signed_url"
    /\ \E ok \in BOOLEAN :
         /\ calls' = Append(calls, Entry("sign", ExpirationMinutes(cfgExpiry), 0,
                                         IF ok THEN "ok" ELSE "error"))
         /\ IF ok THEN pc' = "create" /\ UNCHANGED exitCode ELSE Abort
    /\ UNCHANGED <<credsFile, cfgFile, cfgExpiry, cfgPoll, urlReach,
                   containerId, statusResp, printedError, mediaId>>

\* create_media_container, lines 75-87: the POST that creates the container.
CreateContainer ==
    /\ UNCHANGED <<upVars, mirVars, dlVars, vidVars>>
    /\ pc = "create"
    /\ \E code \in HttpCodes, id \in ContainerIds \cup {NoId} :
         LET res == CallResult(code, id) IN
         /\ calls' = Append(calls, Entry("create", 0, code, res))
         /\ IF res = "ok"
              THEN pc' = "poll" /\ containerId' = id /\ UNCHANGED exitCode
              ELSE Abort /\ UNCHANGED containerId
    /\ UNCHANGED <<credsFile, cfgFile, cfgExpiry, cfgPoll, urlReach,
                   statusResp, printedError, mediaId>>

\* create_media_container, lines 90-108: one iteration of the polling loop.
StatusQuery ==
    /\ UNCHANGED <<upVars, mirVars, dlVars, vidVars>>
    /\ pc = "poll"
    /\ LoopCondition(Ticks)
    /\ Ticks < MaxPolls
    /\ \E code \in HttpCodes, status \in Statuses, detail \in Details :
         LET res == StatusResult(code, status)
             q   == Entry("status", containerId, code, res)
             failed == res \in {"transport_error", "http_error"}
             dec == IF failed THEN "raise" ELSE PollDecision(status)
         IN
         /\ statusResp' = IF code = 0 THEN NoResp
                          ELSE [code |-> code,
                                status |-> IF failed THEN None ELSE status,
                                detail |-> detail]
         /\ CASE dec = "raise" ->
                   /\ Abort
                   /\ calls' = Append(calls, q)
                   /\ UNCHANGED printedError
              [] dec = "return" ->
                   /\ pc' = "publish"
                   /\ calls' = Append(calls, q)
                   /\ UNCHANGED <<exitCode, printedError>>
              [] dec = "exit" ->
                   /\ Abort
                   /\ calls' = Append(calls, q)
                   /\ printedError' = detail
              [] OTHER ->
                   /\ pc' = "poll"
                   /\ calls' = calls \o <<q, Entry("sleep", PollWait(cfgPoll), 0, "ok")>>
                   /\ UNCHANGED <<exitCode, printedError>>
    /\ UNCHANGED <<credsFile, cfgFile, cfgExpiry, cfgPoll, urlReach,
                   containerId, mediaId>>

\* publish_media, then the end of __main__.
PublishMedia ==
    /\ UNCHANGED <<upVars, mirVars, dlVars, vidVars>>
    /\ pc = "publish"
    /\ \E code \in HttpCodes, id \in MediaIds \cup {NoId} :
         LET res == CallResult(code, id) IN
         /\ calls' = Append(calls, Entry("publish", CreationId(containerId), code, res))
         /\ IF res = "ok"
              THEN pc' = "done" /\ exitCode' = 0 /\ mediaId' = id
              ELSE Abort /\ UNCHANGED mediaId
    /\ UNCHANGED <<credsFile, cfgFile, cfgExpiry, cfgPoll, urlReach,
                   containerId, statusResp, printedError>>

IGNext ==
    \/ LoadCredentials
    \/ LoadBusinessConfig
    \/ GenerateSignedUrl
    \/ CreateContainer
    \/ StatusQuery
    \/ PublishMedia

(***************************************************************************)
(* googleCloud_upload.py: concurrent runs against one bucket               *)
(***************************************************************************)
Runs == {"r1", "r2"}
ObjectNames == {"a.mp4", "b.mp4"}
Absent == [generation |-> 0, data |-> None]
Preexisting == [generation |-> 1, data |-> "d0"]
LocalData(r) == IF r = "r1" THEN "d1" ELSE "d2"

\* The if_generation_match argument of upload_from_filename.
IfGenerationMatch == 0

\* The precondition the storage service evaluates atomically with the write.
PreconditionHolds_Unconditional(generation) == TRUE

PreconditionHolds(generation) == generation = IfGenerationMatch

UpInit ==
    /\ upc = [r \in Runs |-> "load"]
    /\ uexit = [r \in Runs |-> -1]
    /\ udest \in [Runs -> ObjectNames]
    /\ bucketExists \in BOOLEAN
    /\ objects \in [ObjectNames -> {Absent, Preexisting}]
    /\ (~bucketExists => objects = [n \in ObjectNames |-> Absent])
    /\ existedAtUpload = [r \in Runs |-> "n/a"]

UpIdle ==
    /\ upc = [r \in Runs |-> "idle"]
    /\ uexit = [r \in Runs |-> -1]
    /\ udest = [r \in Runs |-> "a.mp4"]
    /\ bucketExists = FALSE
    /\ objects = [n \in ObjectNames |-> Absent]
    /\ existedAtUpload = [r \in Runs |-> "n/a"]

UpAbort(r) ==
    /\ upc' = [upc EXCEPT ![r] = "exit"]
    /\ uexit' = [uexit EXCEPT ![r] = 1]

UpGoto(r, where) ==
    /\ upc' = [upc EXCEPT ![r] = where]
    /\ UNCHANGED uexit

\* load_credentials and load_business_config: a missing file, key or path
\* ends in sys.exit(1).
UpLoadConfig(r) ==
    /\ UNCHANGED <<igVars, mirVars, dlVars, vidVars>>
    /\ upc[r] = "load"
    /\ \E ok \in BOOLEAN : IF ok THEN UpGoto(r, "authenticate") ELSE UpAbort(r)
    /\ UNCHANGED <<udest, bucketExists, objects, existedAtUpload>>

\* main, step 1: an invalid key file raises out of main.
UpAuthenticate(r) ==
    /\ UNCHANGED <<igVars, mirVars, dlVars, vidVars>>
    /\ upc[r] = "authenticate"
    /\ \E ok \in BOOLEAN : IF ok THEN UpGoto(r, "bucket") ELSE UpAbort(r)
    /\ UNCHANGED <<udest, bucketExists, objects, existedAtUpload>>

\* main, step 2: get_bucket, and on any exception create_bucket, whose own
\* exception (a conflict with an existing bucket, a refusal) is not caught.
UpGetOrCreateBucket(r) ==
    /\ UNCHANGED <<igVars, mirVars, dlVars, vidVars>>
    /\ upc[r] = "bucket"
    /\ \E getOk \in BOOLEAN, createOk \in BOOLEAN :
         IF bucketExists /\ getOk
           THEN UpGoto(r, "upload") /\ UNCHANGED bucketExists
           ELSE IF ~bucketExists /\ createOk
                  THEN UpGoto(r, "upload") /\ bucketExists' = TRUE
                  ELSE UpAbort(r) /\ UNCHANGED bucketExists
    /\ UNCHANGED <<udest, objects, existedAtUpload>>

\* main, step 3: the conditional upload.  The service checks the precondition
\* and writes the object in one step; outcome "lost" is a write whose response
\* never reaches the client, "error" a request that never reaches the service.
UpUpload(r) ==
    /\ UNCHANGED <<igVars, mirVars, dlVars, vidVars>>
    /\ upc[r] = "upload"
    /\ LET n == udest[r]
           cur == objects[n]
           written == [generation |-> cur.generation + 1, data |-> LocalData(r)]
       IN
       /\ existedAtUpload' =
              [existedAtUpload EXCEPT ![r] = IF cur.generation # 0 THEN "yes" ELSE "no"]
       /\ \E outcome \in {"served", "lost", "error"} :
            CASE outcome = "error" ->
                   UpAbort(r) /\ UNCHANGED objects
              [] ~PreconditionHolds(cur.generation) ->
                   UpAbort(r) /\ UNCHANGED objects
              [] outcome = "lost" ->
                   UpAbort(r) /\ objects' = [objects EXCEPT ![n] = written]
              [] OTHER ->
                   /\ upc' = [upc EXCEPT ![r] = "done"]
                   /\ uexit' = [uexit EXCEPT ![r] = 0]
                   /\ objects' = [objects EXCEPT ![n] = written]
    /\ UNCHANGED <<udest, bucketExists>>

UpNext ==
    \E r \in Runs :
        \/ UpLoadConfig(r)
        \/ UpAuthenticate(r)
        \/ UpGetOrCreateBucket(r)
        \/ UpUpload(r)

(***************************************************************************)
(* Local_GoogleDrive_mirror.py: successive runs on one local folder        *)
(***************************************************************************)
Names == {"a", "b", "c"}

LocalEntries == {n \in Names : localKind[n] # "none"}
LocalFiles == {n \in Names : localKind[n] = "file"}

\* The entries of the Drive folder: a name may occur several times.
DriveEntries ==
    {<<n, 0>> : n \in driveOther}
        \cup {e \in Names \X (1..MaxRuns) : e[2] <= driveScript[e[1]]}

DriveNames == {e[1] : e \in DriveEntries}

\* drive.files().list(...).execute(): one response, no nextPageToken followed.
ListResponses(entries) ==
    IF Cardinality(entries) <= PageSize
      THEN {entries}
      ELSE {page \in SUBSET entries : Cardinality(page) = PageSize}

\* The condition of line 57.
ShouldUpload(isFile, name, seen) == isFile /\ name \notin seen

MirInit ==
    /\ mpc = "module"
    /\ mrun = 1
    /\ localKind \in [Names -> {"none", "file", "dir"}]
    /\ folderExists \in BOOLEAN
    /\ driveOther \in SUBSET Names
    /\ (~folderExists => driveOther = {})
    /\ driveScript = [n \in Names |-> 0]
    /\ existing = {}
    /\ todo = {}
    /\ uploadedNow = {}
    /\ driveAtStart = driveOther
    /\ lastRun = "none"

MirIdle ==
    /\ mpc = "idle"
    /\ mrun = 1
    /\ localKind = [n \in Names |-> "none"]
    /\ folderExists = FALSE
    /\ driveOther = {}
    /\ driveScript = [n \in Names |-> 0]
    /\ existing = {}
    /\ todo = {}
    /\ uploadedNow = {}
    /\ driveAtStart = {}
    /\ lastRun = "none"

\* Lines 11-27: configuration, the is_dir check and the Drive client; any
\* failure raises out of the module.
MirModuleLevel ==
    /\ UNCHANGED <<igVars, upVars, dlVars, vidVars>>
    /\ mpc = "module"
    /\ \E ok \in BOOLEAN : mpc' = IF ok THEN "find_folder" ELSE "failed"
    /\ UNCHANGED <<mrun, localKind, driveOther, driveScript, folderExists,
                   existing, todo, uploadedNow, driveAtStart, lastRun>>

MirFindOrCreateFolder ==
    /\ UNCHANGED <<igVars, upVars, dlVars, vidVars>>
    /\ mpc = "find_folder"
    /\ folderExists' = TRUE
    /\ mpc' = "list"
    /\ UNCHANGED <<mrun, localKind, driveOther, driveScript, existing, todo,
                   uploadedNow, driveAtStart, lastRun>>

\* upload_new_files, lines 50-54.
MirList ==
    /\ UNCHANGED <<igVars, upVars, dlVars, vidVars>>
    /\ mpc = "list"
    /\ \E page \in ListResponses(DriveEntries) :
         existing' = {e[1] : e \in page}
    /\ todo' = LocalEntries
    /\ mpc' = "loop"
    /\ UNCHANGED <<mrun, localKind, driveOther, driveScript, folderExists,
                   uploadedNow, driveAtStart, lastRun>>

\* upload_new_files, lines 56-63: one iteration; iterdir() yields the entries
\* in an arbitrary order.
MirIterate ==
    /\ UNCHANGED <<igVars, upVars, dlVars, vidVars>>
    /\ mpc = "loop"
    /\ \E n \in todo :
         /\ todo' = todo \ {n}
         /\ IF ShouldUpload(localKind[n] = "file", n, existing)
              THEN \E ok \in BOOLEAN :
                     IF ok
                       THEN /\ driveScript' = [driveScript EXCEPT ![n] = @ + 1]
                            /\ uploadedNow' = uploadedNow \cup {n}
                            /\ mpc' = "loop"
                       ELSE /\ mpc' = "failed"
                            /\ UNCHANGED <<driveScript, uploadedNow>>
              ELSE /\ mpc' = "loop"
                   /\ UNCHANGED <<driveScript, uploadedNow>>
    /\ UNCHANGED <<mrun, localKind, driveOther, folderExists, existing,
                   driveAtStart, lastRun>>

MirFinish ==
    /\ UNCHANGED <<igVars, upVars, dlVars, vidVars>>
    /\ mpc = "loop"
    /\ todo = {}
    /\ mpc' = "done"
    /\ UNCHANGED <<mrun, localKind, driveOther, driveScript, folderExists,
                   existing, todo, uploadedNow, driveAtStart, lastRun>>

\* The script is started again on the same folders.
MirRunAgain ==
    /\ UNCHANGED <<igVars, upVars, dlVars, vidVars>>
    /\ mpc \in {"done", "failed"}
    /\ mrun < MaxRuns
    /\ mrun' = mrun + 1
    /\ lastRun' = IF mpc = "done" THEN "completed" ELSE "failed"
    /\ driveAtStart' = DriveNames
    /\ mpc' = "module"
    /\ existing' = {}
    /\ todo' = {}
    /\ uploadedNow' = {}
    /\ UNCHANGED <<localKind, driveOther, driveScript, folderExists>>

MirNext ==
    \/ MirModuleLevel
    \/ MirFindOrCreateFolder
    \/ MirList
    \/ MirIterate
    \/ MirFinish
    \/ MirRunAgain

(***************************************************************************)
(* GoogleDrive_Local_mirror.py: successive runs into one local target      *)
(***************************************************************************)
RemoteNames == {"x", "y", "z"}

\* Files of the local target: `p.is_file()` of line 69.
LocalPresent == {n \in RemoteNames : localChunks[n] >= 0}

\* The test of line 72.
AlreadyMirrored(name, seen) == name \in seen

\* A local file holds the whole content of the Drive file.
Complete(n) == localChunks[n] = NumChunks

DlInit ==
    /\ dpc = "start"
    /\ drun = 1
    /\ remoteFiles \in SUBSET RemoteNames
    /\ localChunks \in [RemoteNames -> {-1, NumChunks}]
    /\ \A n \in RemoteNames : n \notin remoteFiles => localChunks[n] = -1
    /\ dexisting = {}
    /\ dtodo = {}
    /\ dcur = None
    /\ skipped = {}

DlIdle ==
    /\ dpc = "idle"
    /\ drun = 1
    /\ remoteFiles = {}
    /\ localChunks = [n \in RemoteNames |-> -1]
    /\ dexisting = {}
    /\ dtodo = {}
    /\ dcur = None
    /\ skipped = {}

\* main, lines 24-61: arguments, configuration, Drive client, latest folder,
\* local target; any failure raises out of main.
DlStart ==
    /\ UNCHANGED <<igVars, upVars, mirVars, vidVars>>
    /\ dpc = "start"
    /\ \E ok \in BOOLEAN : dpc' = IF ok THEN "list" ELSE "failed"
    /\ UNCHANGED <<drun, remoteFiles, localChunks, dexisting, dtodo, dcur, skipped>>

\* main, lines 64-69: one listing of the Drive folder, then the names of the
\* files already in the local target.
DlList ==
    /\ UNCHANGED <<igVars, upVars, mirVars, vidVars>>
    /\ dpc = "list"
    /\ \E page \in ListResponses(remoteFiles) : dtodo' = page
    /\ dexisting' = LocalPresent
    /\ dpc' = "loop"
    /\ UNCHANGED <<drun, remoteFiles, localChunks, dcur, skipped>>

\* main, lines 70-76: the next file of the listing is skipped when its name
\* is in `existing`; otherwise io.FileIO(dest, "wb") creates the file empty.
DlNextFile ==
    /\ UNCHANGED <<igVars, upVars, mirVars, vidVars>>
    /\ dpc = "loop"
    /\ \E n \in dtodo :
         /\ dtodo' = dtodo \ {n}
         /\ IF AlreadyMirrored(n, dexisting)
              THEN /\ skipped' = skipped \cup {n}
                   /\ UNCHANGED <<dpc, localChunks, dcur>>
              ELSE /\ localChunks' = [localChunks EXCEPT ![n] = 0]
                   /\ dcur' = n
                   /\ dpc' = "downloading"
                   /\ UNCHANGED skipped
    /\ UNCHANGED <<drun, remoteFiles, dexisting>>

\* main, lines 77-81: one downloader.next_chunk(); an HttpError raises out of
\* main, the `with` closes the file and leaves what was written; so does an
\* interruption of the process.
DlNextChunk ==
    /\ UNCHANGED <<igVars, upVars, mirVars, vidVars>>
    /\ dpc = "downloading"
    /\ \E ok \in BOOLEAN :
         IF ok
           THEN /\ localChunks' = [localChunks EXCEPT ![dcur] = @ + 1]
                /\ IF localChunks[dcur] + 1 = NumChunks
                     THEN dpc' = "loop" /\ dcur' = None
                     ELSE UNCHANGED <<dpc, dcur>>
           ELSE /\ dpc' = "failed"
                /\ dcur' = None
                /\ UNCHANGED localChunks
    /\ UNCHANGED <<drun, remoteFiles, dexisting, dtodo, skipped>>

DlFinish ==
    /\ UNCHANGED <<igVars, upVars, mirVars, vidVars>>
    /\ dpc = "loop"
    /\ dtodo = {}
    /\ dpc' = "done"
    /\ UNCHANGED <<drun, remoteFiles, localChunks, dexisting, dtodo, dcur, skipped>>

\* The script is started again on the same folders.
DlRunAgain ==
    /\ UNCHANGED <<igVars, upVars, mirVars, vidVars>>
    /\ dpc \in {"done", "failed"}
    /\ drun < MaxRuns
    /\ drun' = drun + 1
    /\ dpc' = "start"
    /\ dexisting' = {}
    /\ dtodo' = {}
    /\ skipped' = {}
    /\ UNCHANGED <<remoteFiles, localChunks, dcur>>

DlNext ==
    \/ DlStart
    \/ DlList
    \/ DlNextFile
    \/ DlNextChunk
    \/ DlFinish
    \/ DlRunAgain

(***************************************************************************)
(* create_InstagramReel_addMusic.py: one call of create_video_with_music   *)
(***************************************************************************)
\* The /tmp/<safe_filename>.mp3 paths the search results can lead to.
TmpNames == {"m1", "m2", "m3"}

\* What one call of get_freesound_music can end with:
\*   search_error, no_results  lines 48-58, returns None
\*   http_error                lines 68-69 raise a RequestException before the
\*                             file is opened, returns None
\*   partial_caught            the file is opened and the copy fails with a
\*                             RequestException, returns None
\*   partial_raise             the file is opened and the copy fails with
\*                             another exception, which propagates
\*   ok                        returns music_path
QueryOutcomes ==
    {"search_error", "no_results", "http_error", "partial_caught", "partial_raise", "ok"}

\* Whether the call opened music_path for writing (line 70).
WritesFile(outcome) == outcome \in {"partial_caught", "partial_raise", "ok"}

\* cleanup_temp_file(file_path) on the files on disk.
CleanupTempFile(files, path) ==
    IF path # None /\ path \in files THEN files \ {path} ELSE files

VidInit ==
    /\ vpc = "start"
    /\ queriesLeft = NumMusicQueries
    /\ musicPath = None
    /\ tmpFiles = {}
    /\ musicWritten = {}

VidIdle ==
    /\ vpc = "idle"
    /\ queriesLeft = NumMusicQueries
    /\ musicPath = None
    /\ tmpFiles = {}
    /\ musicWritten = {}

\* create_video_with_music, lines 98-128: an empty image list returns at once;
\* building the clips may raise.
VidStart ==
    /\ UNCHANGED <<igVars, upVars, mirVars, dlVars>>
    /\ vpc = "start"
    /\ \E images \in {"none", "some"}, ok \in BOOLEAN :
         vpc' = IF images = "none" THEN "returned"
                ELSE IF ok THEN "music" ELSE "raised_clips"
    /\ UNCHANGED <<queriesLeft, musicPath, tmpFiles, musicWritten>>

\* create_video_with_music, lines 129-132: one iteration of the query loop,
\* with the call of get_freesound_music (lines 36-77) it makes.
VidQuery ==
    /\ UNCHANGED <<igVars, upVars, mirVars, dlVars>>
    /\ vpc = "music"
    /\ queriesLeft > 0
    /\ \E outcome \in QueryOutcomes, name \in TmpNames :
         /\ queriesLeft' = queriesLeft - 1
         /\ IF WritesFile(outcome)
              THEN tmpFiles' = tmpFiles \cup {name} /\ musicWritten' = musicWritten \cup {name}
              ELSE UNCHANGED <<tmpFiles, musicWritten>>
         /\ CASE outcome = "ok" ->
                   musicPath' = name /\ vpc' = "try"
              [] outcome = "partial_raise" ->
                   musicPath' = None /\ vpc' = "raised_download"
              [] OTHER ->
                   musicPath' = None /\ vpc' = "music"

\* The loop ends with every query tried and music_path None.
VidNoMusic ==
    /\ UNCHANGED <<igVars, upVars, mirVars, dlVars>>
    /\ vpc = "music"
    /\ queriesLeft = 0
    /\ vpc' = "try"
    /\ UNCHANGED <<queriesLeft, musicPath, tmpFiles, musicWritten>>

\* create_video_with_music, lines 134-159: the audio is attached and the video
\* musicWritten, either of which may raise; the finally clause runs in all cases.
VidWrite ==
    /\ UNCHANGED <<igVars, upVars, mirVars, dlVars>>
    /\ vpc = "try"
    /\ \E ok \in BOOLEAN : vpc' = IF ok THEN "returned" ELSE "raised_write"
    /\ tmpFiles' = CleanupTempFile(tmpFiles, musicPath)
    /\ UNCHANGED <<queriesLeft, musicPath, musicWritten>>

VidNext ==
    \/ VidStart
    \/ VidQuery
    \/ VidNoMusic
    \/ VidWrite

(***************************************************************************)
(* Specifications                                                          *)
(***************************************************************************)
Init == IGInit /\ UpIdle /\ MirIdle /\ DlIdle /\ VidIdle
Next == IGNext
Spec == Init /\ [][Next]_vars

InitUpload == IGIdle /\ UpInit /\ MirIdle /\ DlIdle /\ VidIdle
SpecUpload == InitUpload /\ [][UpNext]_vars

InitMirror == IGIdle /\ UpIdle /\ MirInit /\ DlIdle /\ VidIdle
SpecMirror == InitMirror /\ [][MirNext]_vars

InitDownload == IGIdle /\ UpIdle /\ MirIdle /\ DlInit /\ VidIdle
SpecDownload == InitDownload /\ [][DlNext]_vars

InitVideo == IGIdle /\ UpIdle /\ MirIdle /\ DlIdle /\ VidInit
SpecVideo == InitVideo /\ [][VidNext]_vars

(***************************************************************************)
(* Properties of the Reel publication workflow (Spec)                      *)
(***************************************************************************)
StatusLog == SelectSeq(calls, LAMBDA e : e.op = "status")
NonTerminal(res) == res \in Statuses \ {"FINISHED", "ERROR"}
HttpFailed(e) == e.code # 200
LastCall == calls[Len(calls)]

\* C1: when the statuses served are n non-terminal ones followed by FINISHED,
\* the poller has made exactly n+1 status queries, has returned at that first
\* FINISHED and never queries again; and when the publish call then succeeds
\* it is the only publish call and yields a media id.
C1_FinishedEndsPolling ==
    \A i \in DOMAIN StatusLog :
        StatusLog[i].res = "FINISHED" =>
            /\ i = Len(StatusLog)
            /\ \A j \in 1..(i - 1) : NonTerminal(StatusLog[j].res)
            /\ Len(StatusLog)
                 = Cardinality({j \in DOMAIN StatusLog : NonTerminal(StatusLog[j].res)}) + 1
            /\ pc \in {"publish", "done", "exit"}
            /\ (pc # "publish" =>
                   /\ CountOp(calls, "publish") = 1
                   /\ LastCall.op = "publish")
            /\ (pc = "done" => LastCall.res = "ok" /\ mediaId \in MediaIds)
            /\ (pc = "exit" => LastCall.res # "ok" /\ mediaId = NoId)

C1_Witness ==
    /\ pc = "done"
    /\ Len(StatusLog) = 3
    /\ NonTerminal(StatusLog[1].res)
    /\ NonTerminal(StatusLog[2].res)
    /\ StatusLog[3].res = "FINISHED"
    /\ mediaId \in MediaIds

\* C2: the first status query answered ERROR is the last call of the run: no
\* status query and no publish call follows, the detail of that response is
\* printed and the process ends with a non-zero status.
C2_ErrorIsTerminal ==
    \A i \in DOMAIN calls :
        (calls[i].op = "status" /\ calls[i].res = "ERROR") =>
            /\ i = Len(calls)
            /\ CountOp(calls, "publish") = 0
            /\ pc = "exit"
            /\ exitCode = 1
            /\ statusResp.status = "ERROR"
            /\ printedError = statusResp.detail
            /\ printedError \in Details

C2_Witness ==
    /\ Len(StatusLog) = 2
    /\ StatusLog[2].res = "ERROR"
    /\ printedError = "e2"
    /\ pc = "exit"

\* C3 (as claimed): a probe of the signed URL precedes container creation, and
\* no container-creation call is made unless the URL answers with a success
\* status.
C3_ProbeGuardsCreation ==
    \A i \in DOMAIN calls :
        calls[i].op = "create" =>
            /\ urlReach >= 200 /\ urlReach < 400
            /\ \E j \in 1..(i - 1) : calls[j].op = "probe" /\ calls[j].res = "ok"

\* C4: the calls of a run come in the order sign, create, status queries,
\* publish; sign, create and publish occur at most once; each step follows the
\* success of the one before; every status query and the publish call name the
\* container created in this run, and publish directly follows a status query
\* of that container answered FINISHED.
StepRank(op) ==
    CASE op = "sign" -> 1
      [] op = "create" -> 2
      [] op \in {"status", "sleep"} -> 3
      [] OTHER -> 4

C4_StepOrder ==
    /\ CountOp(calls, "sign") <= 1
    /\ CountOp(calls, "create") <= 1
    /\ CountOp(calls, "publish") <= 1
    /\ \A i, j \in DOMAIN calls :
           i < j => StepRank(calls[i].op) <= StepRank(calls[j].op)
    /\ \A j \in DOMAIN calls :
           /\ calls[j].op = "create" =>
                 j > 1 /\ calls[j - 1].op = "sign" /\ calls[j - 1].res = "ok"
           /\ calls[j].op = "status" =>
                 /\ \E i \in 1..(j - 1) : calls[i].op = "create" /\ calls[i].res = "ok"
                 /\ containerId \in ContainerIds
                 /\ calls[j].arg = containerId
           /\ calls[j].op = "publish" =>
                 /\ j > 1
                 /\ calls[j - 1].op = "status"
                 /\ calls[j - 1].res = "FINISHED"
                 /\ calls[j - 1].arg = containerId
                 /\ calls[j].arg = containerId

C4_Witness ==
    /\ pc = "done"
    /\ containerId = 2
    /\ LastCall.op = "publish"
    /\ LastCall.arg = 2
    /\ Len(StatusLog) = 2

\* C5: a container-creation call, status query or publish call that gets no
\* success response is the last call of the run, which ends with a non-zero
\* status; a run makes at most one container-creation call and at most one
\* publish call; and a run ends with status 0 only after a publish call that
\* succeeded.
C5_FailureIsFatal ==
    /\ \A i \in DOMAIN calls :
           (calls[i].op \in {"create", "status", "publish"} /\ HttpFailed(calls[i])) =>
               i = Len(calls) /\ pc = "exit" /\ exitCode = 1
    /\ CountOp(calls, "create") <= 1
    /\ CountOp(calls, "publish") <= 1
    /\ exitCode = 0 =>
           /\ calls # <<>>
           /\ LastCall.op = "publish"
           /\ LastCall.code = 200
           /\ LastCall.res = "ok"

C5_Witness ==
    /\ pc = "exit"
    /\ Len(StatusLog) = 2
    /\ LastCall.op = "status"
    /\ LastCall.code = 400

\* C6: with credentials.yml or business_config.yaml missing, incomplete or
\* unreadable, the run makes no network call and, once past the loading of
\* the faulty file, has ended with a non-zero status.
C6_ConfigErrorBeforeNetwork ==
    (credsFile # "ok" \/ cfgFile # "ok") =>
        /\ calls = <<>>
        /\ pc \in {"load_credentials", "load_business_config", "exit"}
        /\ (pc = "load_business_config" => credsFile = "ok")
        /\ (pc = "exit" => exitCode = 1)

C6_Witness ==
    /\ credsFile = "ok"
    /\ cfgFile = "unreadable"
    /\ pc = "exit"
    /\ exitCode = 1

\* One step of the run taken while the poller is polling.
C7_PollStep ==
    pc = "poll" =>
        \/ /\ pc' = "poll"
           /\ exitCode' = exitCode
           /\ Len(calls') = Len(calls) + 2
           /\ calls'[Len(calls) + 1].op = "status"
           /\ calls'[Len(calls) + 1].code = 200
           /\ NonTerminal(calls'[Len(calls) + 1].res)
           /\ calls'[Len(calls) + 2] = Entry("sleep", PollSleepSeconds, 0, "ok")
        \/ /\ pc' \in {"publish", "exit"}
           /\ Len(calls') = Len(calls) + 1
           /\ calls'[Len(calls')].op = "status"
           /\ \/ HttpFailed(calls'[Len(calls')])
              \/ calls'[Len(calls')].res \in {"FINISHED", "ERROR"}
           /\ (pc' = "publish") = (calls'[Len(calls')].res = "FINISHED")

\* C7: the poller has no tick limit: while it is polling another status query
\* is always possible, however many were made; a query answered with anything
\* but FINISHED or ERROR (a missing status_code included) is followed by the
\* fixed wait and leaves the poller polling; and the poller stops polling only
\* on FINISHED, on ERROR or on a failed query.
C7_NoTickLimit ==
    /\ []((pc = "poll" /\ Ticks < MaxPolls) => ENABLED StatusQuery)
    /\ [][C7_PollStep]_vars

C7_Witness ==
    /\ pc = "poll"
    /\ Len(StatusLog) >= 3
    /\ \A j \in DOMAIN StatusLog : NonTerminal(StatusLog[j].res)
    /\ \E j \in DOMAIN StatusLog : StatusLog[j].res = "missing"

\* C10 (as claimed): the window of the signed URL is signedUrlExpiryMinutes
\* when supplied and 15 otherwise; the wait between two status queries is
\* pollIntervalSeconds when supplied and 5 otherwise.
C10_TimingFromConfig ==
    \A i \in DOMAIN calls :
        /\ calls[i].op = "sign" =>
              calls[i].arg = IF cfgExpiry = 0 THEN 15 ELSE cfgExpiry
        /\ calls[i].op = "sleep" =>
              calls[i].arg = IF cfgPoll = 0 THEN 5 ELSE cfgPoll

\* C10 (amended): the window of the signed URL is 15 minutes and the wait
\* between two status queries is 5 seconds, whatever the configuration
\* supplies for signedUrlExpiryMinutes and pollIntervalSeconds.
C10_FixedTiming ==
    \A i \in DOMAIN calls :
        /\ calls[i].op = "sign" => calls[i].arg = 15
        /\ calls[i].op = "sleep" => calls[i].arg = 5

C10_Witness ==
    /\ cfgExpiry = 30
    /\ cfgPoll = 10
    /\ CountOp(calls, "sign") = 1
    /\ CountOp(calls, "sleep") >= 1

(***************************************************************************)
(* Properties of the GCS upload script (SpecUpload)                        *)
(***************************************************************************)

\* What the runs that reached the upload have ended with.
C8_Outcomes ==
    /\ \A r \in Runs :
           /\ existedAtUpload[r] = "yes" => upc[r] = "exit" /\ uexit[r] = 1
           /\ uexit[r] = 0 =>
                 /\ existedAtUpload[r] = "no"
                 /\ objects[udest[r]].data = LocalData(r)
    /\ \A r1, r2 \in Runs :
           (r1 # r2 /\ udest[r1] = udest[r2]) => ~(uexit[r1] = 0 /\ uexit[r2] = 0)

\* No step changes an object that exists.
C8_ExistingUnchanged ==
    \A n \in ObjectNames : objects[n].generation # 0 => objects'[n] = objects[n]

\* C8: an upload served while an object of the destination name exists fails
\* with a non-zero exit status; a run exits 0 only if no such object existed
\* and the object then holds its file; of the runs that target one name at
\* most one exits 0; and no step changes an object that exists.
C8_NeverOverwrites == []C8_Outcomes /\ [][C8_ExistingUnchanged]_vars

C8_Witness ==
    /\ udest["r1"] = udest["r2"]
    /\ uexit["r1"] = 0
    /\ existedAtUpload["r2"] = "yes"
    /\ uexit["r2"] = 1
    /\ objects[udest["r1"]].data = "d1"

(***************************************************************************)
(* Properties of the local-to-Drive mirror (SpecMirror)                    *)
(***************************************************************************)

\* C9 (as claimed): a run uploads only regular local files whose name was not
\* in the Drive folder when it started, a completed run has uploaded exactly
\* those, the script never creates two files of one name in the Drive folder,
\* and a run that follows a completed run uploads nothing.
C9_SkipsExisting ==
    /\ \A n \in uploadedNow : localKind[n] = "file" /\ n \notin driveAtStart
    /\ mpc = "done" => uploadedNow = LocalFiles \ driveAtStart
    /\ \A n \in Names : driveScript[n] <= 1
    /\ lastRun = "completed" => uploadedNow = {}

(***************************************************************************)
(* Properties of the Drive-to-local mirror (SpecDownload)                  *)
(***************************************************************************)

\* C11 (as claimed): in every run, after whatever runs came before (failed or
\* interrupted ones included), each file the run skips because a file of that
\* name is in the local target holds the complete content of the Drive file.
C11_SkippedAreComplete ==
    \A n \in skipped : Complete(n)

(***************************************************************************)
(* Properties of create_video_with_music (SpecVideo)                       *)
(***************************************************************************)
VidEnded == vpc \in {"returned", "raised_clips", "raised_download", "raised_write"}

\* C12 (as claimed): when create_video_with_music has ended, by returning or
\* by raising, none of the music files get_freesound_music wrote under /tmp
\* during the call is left on disk.
C12_NoTempFileRemains ==
    VidEnded => musicWritten \cap tmpFiles = {}

====
